---- MODULE Spec2Model ----
(***************************************************************************)
(* A model of the SENSE workflow agent: the document parser of             *)
(* lib/workflow.py, the traversal loop of workflow-agent.py and the        *)
(* background thread of TimedNoiseFlow.spawn.                              *)
(*                                                                         *)
(* Python values of the loaded YAML document are tagged records.  Every    *)
(* Python str VALUE is a sequence of one-character strings, so that the    *)
(* suffix tests of the quantity parsers can be computed; dictionary KEYS   *)
(* are TLA+ strings (they are only ever compared for equality).  Floats    *)
(* are fixed-point numbers in thousandths (Milli).                         *)
(***************************************************************************)
EXTENDS Integers, Sequences, FiniteSets, TLC

----------------------------------------------------------------------------
(* Bounds of the explored input space *)

\* most nodes (the start node included) of a generated document
MaxNodes == 5
\* largest number of seconds a flow thread can observe as elapsed at a test
MaxElapsed == 1

\* fixed-point unit of a float: thousandths
Milli == 1000

----------------------------------------------------------------------------
(* Values produced by yaml.load *)

VNull == [t |-> "null"]
VStr(s) == [t |-> "str", v |-> s]
VInt(n) == [t |-> "int", v |-> n]
VFloat(n) == [t |-> "float", v |-> n]
VMap(items) == [t |-> "map", items |-> items]
VList(elems) == [t |-> "list", elems |-> elems]

IsDict(x) == x.t = "map"
IsList(x) == x.t = "list"
IsStr(x) == x.t = "str"
IsInt(x) == x.t = "int"

\* `k in d` and `d[k]` of a Python dict (insertion-ordered, keys unique)
HasKey(d, k) == \E i \in 1..Len(d.items) : d.items[i][1] = k
GetKey(d, k) == d.items[CHOOSE i \in 1..Len(d.items) : d.items[i][1] = k][2]

----------------------------------------------------------------------------
(* Results of the parse functions *)

\* `return None`
None == [r |-> "none"]
\* a call of exit(code) inside the parser
Exit(code) == [r |-> "exit", code |-> code]
\* an exception nobody catches (the interpreter ends with status 1)
Raise == [r |-> "raise"]
Some(x) == [r |-> "ok", val |-> x]

IsNone(x) == x.r = "none"
IsAbort(x) == x.r \in {"exit", "raise"}

----------------------------------------------------------------------------
(* Strings *)

Digits == <<"0", "1", "2", "3", "4", "5", "6", "7", "8", "9">>
IsDigit(c) == \E i \in 1..10 : Digits[i] = c
DigitVal(c) == (CHOOSE i \in 1..10 : Digits[i] = c) - 1

RECURSIVE LStrip(_)
LStrip(s) == IF s # <<>> /\ Head(s) = " " THEN LStrip(Tail(s)) ELSE s
RECURSIVE RStrip(_)
RStrip(s) ==
    IF s # <<>> /\ s[Len(s)] = " " THEN RStrip(SubSeq(s, 1, Len(s) - 1)) ELSE s
\* str.strip()
Strip(s) == RStrip(LStrip(s))

\* raw[-n:] == suf, guarded by len(raw) >= n
EndsWith(s, suf) ==
    Len(s) >= Len(suf) /\ SubSeq(s, Len(s) - Len(suf) + 1, Len(s)) = suf
\* raw[:-n]
DropLast(s, n) == SubSeq(s, 1, Len(s) - n)

RECURSIVE DigitsVal(_)
DigitsVal(s) ==
    IF s = <<>> THEN 0 ELSE 10 * DigitsVal(DropLast(s, 1)) + DigitVal(s[Len(s)])

AllDigits(s) == \A i \in 1..Len(s) : IsDigit(s[i])

\* str(n) of a non-negative int
RECURSIVE IntToStr(_)
IntToStr(n) ==
    IF n < 10 THEN <<Digits[n + 1]>> ELSE IntToStr(n \div 10) \o <<Digits[(n % 10) + 1]>>

DotAt(s) == {i \in 1..Len(s) : s[i] = "."}

\* float(raw) succeeds.  The grammar covered is [spaces] digits [. digits]
\* [spaces] and . digits; generated documents use no other float syntax
\* (no sign, exponent, inf or nan).
IsFloat(raw) ==
    LET s == Strip(raw)
    IN  /\ s # <<>>
        /\ Cardinality(DotAt(s)) <= 1
        /\ \A i \in 1..Len(s) : IsDigit(s[i]) \/ s[i] = "."
        /\ \E i \in 1..Len(s) : IsDigit(s[i])

\* the fraction digits as thousandths (digits after the third are dropped)
FracMilli(f) ==
    LET p == SubSeq(f \o <<"0", "0", "0">>, 1, 3) IN DigitsVal(p)

\* float(raw), in thousandths
FloatVal(raw) ==
    LET s == Strip(raw)
        d == DotAt(s)
    IN  IF d = {} THEN Milli * DigitsVal(s)
        ELSE LET i == CHOOSE j \in d : TRUE
             IN  Milli * DigitsVal(SubSeq(s, 1, i - 1))
                   + FracMilli(SubSeq(s, i + 1, Len(s)))

----------------------------------------------------------------------------
(* Quantities.  An amount is a float in thousandths of its canonical unit. *)

\* The if/elif chain of Duration._parse, in source order: <<suffix, factor>>
DurationSuffixes ==
    << <<<<"s">>, 1>>,
       <<<<"s", "e", "c">>, 1>>,
       <<<<"s", "e", "c", "o", "n", "d", "s">>, 1>>,
       <<<<"m">>, 60>>,
       <<<<"m", "i", "n">>, 60>>,
       <<<<"m", "i", "n", "u", "t", "e", "s">>, 60>>,
       <<<<"h">>, 3600>>,
       <<<<"h", "r">>, 3600>>,
       <<<<"h", "o", "u", "r", "s">>, 3600>> >>

\* a chain that tests the bare b and B first
BytesSuffixesShortFirst ==
    << <<<<"b">>, 1, 8>>,
       <<<<"B">>, 1, 1>>,
       <<<<"K", "b">>, 1000, 8>>,
       <<<<"K", "i", "b">>, 1024, 8>>,
       <<<<"K", "B">>, 1000, 1>>,
       <<<<"K", "i", "B">>, 1024, 1>>,
       <<<<"M", "b">>, 1000 * 1000, 8>>,
       <<<<"M", "i", "b">>, 1024 * 1024, 8>>,
       <<<<"M", "B">>, 1000 * 1000, 1>>,
       <<<<"M", "i", "B">>, 1024 * 1024, 1>>,
       <<<<"G", "b">>, 1000 * 1000 * 1000, 8>>,
       <<<<"G", "i", "b">>, 1024 * 1024 * 1024, 8>>,
       <<<<"G", "B">>, 1000 * 1000 * 1000, 1>>,
       <<<<"G", "i", "B">>, 1024 * 1024 * 1024, 1>> >>

\* The if/elif chain of Bytes._parse, in source order: <<suffix, num, den>>
\* with factor num/den
BytesSuffixes ==
    << <<<<"K", "b">>, 1000, 8>>,
       <<<<"K", "i", "b">>, 1024, 8>>,
       <<<<"K", "B">>, 1000, 1>>,
       <<<<"K", "i", "B">>, 1024, 1>>,
       <<<<"M", "b">>, 1000 * 1000, 8>>,
       <<<<"M", "i", "b">>, 1024 * 1024, 8>>,
       <<<<"M", "B">>, 1000 * 1000, 1>>,
       <<<<"M", "i", "B">>, 1024 * 1024, 1>>,
       <<<<"G", "b">>, 1000 * 1000 * 1000, 8>>,
       <<<<"G", "i", "b">>, 1024 * 1024 * 1024, 8>>,
       <<<<"G", "B">>, 1000 * 1000 * 1000, 1>>,
       <<<<"G", "i", "B">>, 1024 * 1024 * 1024, 1>>,
       <<<<"b">>, 1, 8>>,
       <<<<"B">>, 1, 1>> >>

\* the first branch of an if/elif chain whose suffix test succeeds (0: the
\* final else)
FirstMatch(table, raw) ==
    LET hits == {i \in 1..Len(table) : EndsWith(raw, table[i][1])}
    IN  IF hits = {} THEN 0 ELSE CHOOSE i \in hits : \A j \in hits : i <= j

Duration_parse(raw0) ==
    LET raw == Strip(raw0)
    IN  IF IsFloat(raw) THEN Some(FloatVal(raw))
        ELSE LET k == FirstMatch(DurationSuffixes, raw)
                 rest == IF k = 0 THEN raw
                         ELSE Strip(DropLast(raw, Len(DurationSuffixes[k][1])))
                 factor == IF k = 0 THEN 1 ELSE DurationSuffixes[k][2]
             IN  IF IsFloat(rest) THEN Some(factor * FloatVal(rest)) ELSE None

Bytes_parse(raw0) ==
    LET raw == Strip(raw0)
    IN  IF IsFloat(raw) THEN Some(FloatVal(raw))
        ELSE LET k == FirstMatch(BytesSuffixes, raw)
                 rest == IF k = 0 THEN raw
                         ELSE Strip(DropLast(raw, Len(BytesSuffixes[k][1])))
             IN  IF IsFloat(rest)
                 THEN Some(IF k = 0 THEN FloatVal(rest)
                           ELSE (BytesSuffixes[k][2] * FloatVal(rest))
                                    \div BytesSuffixes[k][3])
                 ELSE None

\* str(fields) of an int or a str
PyStr(x) == IF IsInt(x) THEN IntToStr(x.v) ELSE x.v

\* the fraction digits Python prints for f thousandths: no trailing zero,
\* one digit at least
FracStr(f) ==
    IF f % 100 = 0 THEN <<Digits[(f \div 100) + 1]>>
    ELSE IF f % 10 = 0
    THEN <<Digits[(f \div 100) + 1], Digits[((f \div 10) % 10) + 1]>>
    ELSE <<Digits[(f \div 100) + 1], Digits[((f \div 10) % 10) + 1],
           Digits[(f % 10) + 1]>>

\* f"{x}" of a float x of m thousandths
FloatStr(m) == IntToStr(m \div Milli) \o <<".">> \o FracStr(m % Milli)

\* f"{amount / k} unit": the text, and whether the quotient is exact in
\* thousandths (the text of Python has more digits when it is not)
Human(m, k, unit) ==
    [text |-> FloatStr(m \div k) \o <<" ">> \o unit, exact |-> m % k = 0]

as_human_bytes(m) ==
    IF m \div Milli >= 1000 * 1000 * 1000 THEN Human(m, 1000 * 1000 * 1000, <<"G", "B">>)
    ELSE IF m \div Milli >= 1000 * 1000 THEN Human(m, 1000 * 1000, <<"M", "B">>)
    ELSE IF m \div Milli >= 1000 THEN Human(m, 1000, <<"K", "B">>)
    ELSE Human(m, 1, <<"B">>)

as_human_bibi_bytes(m) ==
    IF m \div Milli >= 1024 * 1024 * 1024
    THEN Human(m, 1024 * 1024 * 1024, <<"G", "i", "B">>)
    ELSE IF m \div Milli >= 1024 * 1024 THEN Human(m, 1024 * 1024, <<"M", "i", "B">>)
    ELSE IF m \div Milli >= 1024 THEN Human(m, 1024, <<"K", "i", "B">>)
    ELSE Human(m, 1, <<"B">>)

as_human_bits(m) ==
    LET amount == 8 * m
    IN  IF amount \div Milli >= 1000 * 1000 * 1000
        THEN Human(amount, 1000 * 1000 * 1000, <<"G", "b">>)
        ELSE IF amount \div Milli >= 1000 * 1000
        THEN Human(amount, 1000 * 1000, <<"M", "b">>)
        ELSE IF amount \div Milli >= 1000 THEN Human(amount, 1000, <<"K", "b">>)
        ELSE Human(amount, 1, <<"b">>)

as_human_bibi_bits(m) ==
    LET amount == 8 * m
    IN  IF amount \div Milli >= 1024 * 1024 * 1024
        THEN Human(amount, 1024 * 1024 * 1024, <<"G", "i", "b">>)
        ELSE IF amount \div Milli >= 1024 * 1024
        THEN Human(amount, 1024 * 1024, <<"M", "i", "b">>)
        ELSE IF amount \div Milli >= 1024 THEN Human(amount, 1024, <<"K", "i", "b">>)
        ELSE Human(amount, 1, <<"b">>)

\* 'hour' if amount == 1.0 else 'hours'
Plural(m, k, word) == IF m \div k = Milli /\ m % k = 0 THEN word ELSE word \o <<"s">>

as_human_duration(m) ==
    IF m \div Milli >= 60 * 60
    THEN Human(m, 60 * 60, Plural(m, 60 * 60, <<"h", "o", "u", "r">>))
    ELSE IF m \div Milli >= 60
    THEN Human(m, 60, Plural(m, 60, <<"m", "i", "n", "u", "t", "e">>))
    ELSE Human(m, 1, Plural(m, 1, <<"s", "e", "c", "o", "n", "d">>))

----------------------------------------------------------------------------
(* Endpoints *)

RECURSIVE SourceInfo_items(_, _, _, _)
SourceInfo_items(data, i, interface, port) ==
    IF i > Len(data.items)
    THEN IF IsNone(interface) THEN None
         ELSE IF IsNone(port) THEN None
         ELSE Some([interface |-> interface.val, port |-> port.val])
    ELSE LET ty == data.items[i][1]
             fields == data.items[i][2]
         IN  IF ty = "interface"
             THEN IF ~IsStr(fields) THEN None
                  ELSE IF ~IsNone(interface) THEN None
                  ELSE SourceInfo_items(data, i + 1, Some(fields.v), port)
             ELSE IF ty = "port"
             THEN IF ~IsInt(fields) THEN None
                  ELSE IF ~IsNone(port) THEN None
                  ELSE SourceInfo_items(data, i + 1, interface, Some(fields.v))
             ELSE SourceInfo_items(data, i + 1, interface, port)

SourceInfo_parse(data) == SourceInfo_items(data, 1, None, None)

\* the host names socket.gethostbyname resolves
KnownHosts == {<<"h">>}

\* a constructor that takes the address as it is
TargetInfo_initNoLookup(addr, port) == Some([addr |-> addr, port |-> port])

\* TargetInfo.__init__ of a str address: exit(1) when it does not resolve
TargetInfo_init(addr, port) ==
    IF addr \in KnownHosts THEN Some([addr |-> addr, port |-> port]) ELSE Exit(1)

RECURSIVE TargetInfo_items(_, _, _, _)
TargetInfo_items(data, i, addr, port) ==
    IF i > Len(data.items)
    THEN IF IsNone(addr) THEN None
         ELSE IF IsNone(port) THEN None
         ELSE TargetInfo_init(addr.val, port.val)
    ELSE LET ty == data.items[i][1]
             fields == data.items[i][2]
         IN  IF ty = "addr"
             THEN IF ~IsStr(fields) THEN None
                  ELSE IF ~IsNone(addr) THEN None
                  ELSE TargetInfo_items(data, i + 1, Some(fields.v), port)
             ELSE IF ty = "port"
             THEN IF ~IsInt(fields) THEN None
                  ELSE IF ~IsNone(port) THEN None
                  ELSE TargetInfo_items(data, i + 1, addr, Some(fields.v))
             ELSE TargetInfo_items(data, i + 1, addr, port)

TargetInfo_parse(data) == TargetInfo_items(data, 1, None, None)

----------------------------------------------------------------------------
(* Flows *)

TimedNoise == <<"T", "i", "m", "e", "d", "N", "o", "i", "s", "e">>

\* TimedNoiseFlow.__init__ with Flow.__init__: done starts False
TimedNoiseFlow_init(time, bandwidth, chunk_size, source, target) ==
    [kind |-> "TimedNoise", time |-> time, bandwidth |-> bandwidth,
     chunk_size |-> chunk_size, source |-> source, target |-> target,
     done |-> FALSE]

NoFields == [time |-> None, bandwidth |-> None, chunk_size |-> None,
             source |-> None, target |-> None]

\* one quantity field of TimedNoiseFlow._parse: type test, duplicate test,
\* then the quantity parser on str(fields)
QuantityField(fields, old, parsed) ==
    IF ~IsInt(fields) /\ ~IsStr(fields) THEN None
    ELSE IF ~IsNone(old) THEN None
    ELSE parsed

RECURSIVE TimedNoiseFlow_items(_, _, _)
TimedNoiseFlow_items(data, i, acc) ==
    IF i > Len(data.items)
    THEN IF \E f \in DOMAIN acc : IsNone(acc[f]) THEN None
         ELSE Some(TimedNoiseFlow_init(acc.time.val, acc.bandwidth.val,
                       acc.chunk_size.val, acc.source.val, acc.target.val))
    ELSE LET ty == data.items[i][1]
             fields == data.items[i][2]
             got == CASE ty = "time" ->
                            QuantityField(fields, acc.time, Duration_parse(PyStr(fields)))
                      [] ty = "bandwidth" ->
                            QuantityField(fields, acc.bandwidth, Bytes_parse(PyStr(fields)))
                      [] ty = "chunk_size" ->
                            QuantityField(fields, acc.chunk_size, Bytes_parse(PyStr(fields)))
                      [] ty = "source" ->
                            IF ~IsDict(fields) THEN None ELSE SourceInfo_parse(fields)
                      [] ty = "target" ->
                            IF ~IsDict(fields) THEN None ELSE TargetInfo_parse(fields)
                      [] OTHER -> None
         IN  IF ty \notin DOMAIN acc
             THEN TimedNoiseFlow_items(data, i + 1, acc)
             ELSE IF IsAbort(got) THEN got
             ELSE IF IsNone(got) THEN None
             ELSE TimedNoiseFlow_items(data, i + 1, [acc EXCEPT ![ty] = got])

TimedNoiseFlow_parse(data) == TimedNoiseFlow_items(data, 1, NoFields)

Flow_parse(data) ==
    IF ~HasKey(data, "kind") THEN None
    ELSE IF ~IsStr(GetKey(data, "kind")) THEN None
    ELSE IF GetKey(data, "kind").v = TimedNoise THEN TimedNoiseFlow_parse(data)
    ELSE None

----------------------------------------------------------------------------
(* Nodes.  A graph is an arena: a sequence of node records that refer to   *)
(* each other by index, the node a parser returns being the first.         *)

NoFlow == [kind |-> "none"]

\* Node.__init__ (StartNode: no incoming; EndNode: no outgoing)
Node_init(kind, name, flow, incoming, outgoing) ==
    [kind |-> kind, name |-> name, flow |-> flow,
     incoming |-> incoming, outgoing |-> outgoing]

\* the indices of a list of nodes, k slots further
Moved(ids, k) == [x \in 1..Len(ids) |-> ids[x] + k] \o <<>>

\* the same objects, placed k slots further in a larger arena
Shift(arena, k) ==
    [i \in 1..Len(arena) |->
        Node_init(arena[i].kind, arena[i].name, arena[i].flow,
                  Moved(arena[i].incoming, k), Moved(arena[i].outgoing, k))] \o <<>>

\* a parser that forgets nested.incoming.append(node)
LinkOneWay(arena, nested) ==
    LET off == Len(arena)
        parent == <<[arena[1] EXCEPT !.outgoing = Append(@, off + 1)]>> \o Tail(arena)
    IN  parent \o Shift(nested, off)

\* a parser that also hangs the nested node under the child parsed before
\* it, as a second parent
LinkAdopt(arena, nested) ==
    LET off == Len(arena)
        out == arena[1].outgoing
        moved == Shift(nested, off)
        child == <<[moved[1] EXCEPT !.incoming =
                       IF out = <<>> THEN <<1>> ELSE <<1, out[Len(out)]>>]>>
                 \o Tail(moved)
        parent == <<[arena[1] EXCEPT !.outgoing = Append(@, off + 1)]>>
        rest == [i \in 2..Len(arena) |->
                    IF out # <<>> /\ i = out[Len(out)]
                    THEN [arena[i] EXCEPT !.outgoing = Append(@, off + 1)]
                    ELSE arena[i]]
    IN  parent \o [i \in 1..(Len(arena) - 1) |-> rest[i + 1]] \o child

\* nested.incoming.append(node); node.outgoing.append(nested)
Link(arena, nested) ==
    LET off == Len(arena)
        moved == Shift(nested, off)
        child == <<[moved[1] EXCEPT !.incoming = Append(@, 1)]>> \o Tail(moved)
        parent == <<[arena[1] EXCEPT !.outgoing = Append(@, off + 1)]>> \o Tail(arena)
    IN  parent \o child

\* `type != "<start>"` (and "<flow>", "<end>") compares the builtin `type`
\* with a string: always True
BuiltinTypeDiffers(alias) == TRUE

\* the test that leaves a node parser with None for a foreign key
KeyRejected(ty, key, alias) == ty # key /\ BuiltinTypeDiffers(alias)

\* what every parser does with the result x of a parser it calls: an exit
\* or exception ends it too, None makes it return None, and a value lets it
\* go on (Go)
Checked(x, Go(_)) ==
    IF IsAbort(x) THEN x ELSE IF IsNone(x) THEN None ELSE Go(x.val)

\* `if (node := A) is not None: return node`, else B
OrElse(x, y) == IF IsAbort(x) \/ ~IsNone(x) THEN x ELSE y

\* a parser without the test for an empty outgoing list
NoOutgoingNever(arena) == FALSE

\* `if len(node.outgoing) == 0:` after the loop over `next`
NoOutgoing(arena) == Len(arena[1].outgoing) = 0

RECURSIVE Node_parse(_)
RECURSIVE ParseChildren(_, _, _)
\* the `for i, nested in enumerate(next)` loop of StartNode._parse and
\* FlowNode._parse, followed by the test for an empty outgoing list
ParseChildren(arena, next, j) ==
    IF j > Len(next.elems)
    THEN IF NoOutgoing(arena) THEN None ELSE Some(arena)
    ELSE Checked(Node_parse(next.elems[j]),
                 LAMBDA nested : ParseChildren(Link(arena, nested), next, j + 1))

RECURSIVE StartNode_items(_, _, _)
StartNode_items(data, i, node) ==
    IF i > Len(data.items) THEN node
    ELSE LET ty == data.items[i][1]
             fields == data.items[i][2]
         IN  IF KeyRejected(ty, "start", "<start>") THEN None
             ELSE IF ~IsNone(node) THEN None
             ELSE IF ~IsDict(fields) THEN None
             ELSE IF ~HasKey(fields, "name") THEN None
             ELSE IF ~HasKey(fields, "next") THEN None
             ELSE IF ~IsList(GetKey(fields, "next")) THEN None
             ELSE Checked(
                      ParseChildren(
                          <<Node_init("Start", GetKey(fields, "name"), NoFlow,
                                      <<>>, <<>>)>>,
                          GetKey(fields, "next"), 1),
                      LAMBDA arena : StartNode_items(data, i + 1, Some(arena)))

\* data.items() of a value that is no dict raises AttributeError
StartNode_parse(data) ==
    IF ~IsDict(data) THEN Raise ELSE StartNode_items(data, 1, None)

RECURSIVE FlowNode_items(_, _, _)
FlowNode_items(data, i, node) ==
    IF i > Len(data.items) THEN node
    ELSE LET ty == data.items[i][1]
             fields == data.items[i][2]
         IN  IF KeyRejected(ty, "flow", "<flow>") THEN None
             ELSE IF ~IsNone(node) THEN None
             ELSE IF ~IsDict(fields) THEN None
             ELSE IF ~HasKey(fields, "name") THEN None
             ELSE IF ~HasKey(fields, "flow") THEN None
             ELSE IF ~IsDict(GetKey(fields, "flow")) THEN None
             ELSE Checked(
                      Flow_parse(GetKey(fields, "flow")),
                      LAMBDA flow :
                          IF ~HasKey(fields, "next") THEN None
                          ELSE IF ~IsList(GetKey(fields, "next")) THEN None
                          ELSE Checked(
                                   ParseChildren(
                                       <<Node_init("Flow", GetKey(fields, "name"),
                                                   flow, <<>>, <<>>)>>,
                                       GetKey(fields, "next"), 1),
                                   LAMBDA arena :
                                       FlowNode_items(data, i + 1, Some(arena))))

FlowNode_parse(data) ==
    IF ~IsDict(data) THEN Raise ELSE FlowNode_items(data, 1, None)

RECURSIVE EndNode_items(_, _, _)
EndNode_items(data, i, node) ==
    IF i > Len(data.items) THEN node
    ELSE LET ty == data.items[i][1]
             fields == data.items[i][2]
         IN  IF KeyRejected(ty, "end", "<end>") THEN None
             ELSE IF ~IsNone(node) THEN None
             ELSE IF ~IsDict(fields) THEN None
             ELSE IF ~HasKey(fields, "name") THEN None
             ELSE EndNode_items(data, i + 1,
                      Some(<<Node_init("End", GetKey(fields, "name"), NoFlow,
                                       <<>>, <<>>)>>))

EndNode_parse(data) ==
    IF ~IsDict(data) THEN Raise ELSE EndNode_items(data, 1, None)

\* Node._parse: a FlowNode, else an EndNode
Node_parse(data) == OrElse(FlowNode_parse(data), EndNode_parse(data))

StartName == <<"<", "s", "t", "a", "r", "t", ">">>

\* a parse_handle without the branch for the empty document
Workflow_parse_handleNoEmpty(data) == OrElse(StartNode_parse(data), Exit(1))

\* Workflow.parse_handle on the loaded document: the graph of the Workflow,
\* or the way the process ends
Workflow_parse_handle(data) ==
    IF data.t = "null"
    THEN Some(<<Node_init("Start", VStr(StartName), NoFlow, <<>>, <<>>)>>)
    ELSE OrElse(StartNode_parse(data), Exit(1))

----------------------------------------------------------------------------
(* The documents explored.  A shape is a tree of [v, kids]: its root is    *)
(* rendered as the start node, a node without kids as an end node, any     *)
(* other node as a flow node.  v names how the node's text deviates from   *)
(* the well-formed one ("ok": not at all).                                 *)

RECURSIVE Trees(_)
RECURSIVE Forests(_)
\* the shapes with exactly n nodes
Trees(n) ==
    IF n = 1 THEN {[v |-> "ok", kids |-> <<>>]}
    ELSE {[v |-> "ok", kids |-> f] : f \in Forests(n - 1)}
\* the non-empty sequences of shapes with m nodes in all
Forests(m) ==
    IF m = 0 THEN {<<>>}
    ELSE UNION {{<<t>> \o f : t \in Trees(k), f \in Forests(m - k)} : k \in 1..m}

Shapes == UNION {Trees(n) : n \in 2..MaxNodes}

StartVariants ==
    {"alias", "noname", "nameint", "notdict", "nonext", "nextnotlist",
     "emptynext", "secondkey", "unknownkey"}
FlowVariants ==
    {"alias", "noname", "nameint", "notdict", "noflow", "flownotdict", "nokind",
     "kindint", "bogus", "notime", "badtime", "timefloat", "timeword", "nosource",
     "portstr", "badhost", "nonext", "nextnotlist", "emptynext", "secondkey",
     "unknownfield", "nonmap"}
EndVariants ==
    {"alias", "noname", "nameint", "notdict", "secondkey", "unknownkey", "nonmap"}

RECURSIVE MutateBelow(_, _, _)
\* the shapes that deviate in exactly one node below the root, by one of
\* the deviations fv (of a flow node) or ev (of an end node)
MutateBelow(t, fv, ev) ==
    UNION {{[t EXCEPT !.kids[i] = m] :
                m \in {[t.kids[i] EXCEPT !.v = x] :
                          x \in IF t.kids[i].kids = <<>> THEN ev ELSE fv}
                      \cup MutateBelow(t.kids[i], fv, ev)} : i \in 1..Len(t.kids)}

MutateBy(t, sv, fv, ev) ==
    {[t EXCEPT !.v = x] : x \in sv} \cup MutateBelow(t, fv, ev)

Mutate(t) == MutateBy(t, StartVariants, FlowVariants, EndVariants)

NameOf(kind) == VStr(<<kind>>)

\* the fields of a node body, with the deviation v applied
Body(v, kind, fields) ==
    IF v = "notdict" THEN VStr(<<"x">>)
    ELSE VMap(
        (IF v = "noname" THEN <<>>
         ELSE IF v = "nameint" THEN << <<"name", VInt(5)>> >>
         ELSE << <<"name", NameOf(kind)>> >>) \o fields)

Keyed(v, key, body) ==
    IF v = "nonmap" THEN VStr(<<"x">>)
    ELSE VMap(
        << <<(IF v = "alias" THEN "<" \o key \o ">"
              ELSE IF v = "unknownkey" THEN "node" ELSE key), body>> >>
        \o (IF v = "secondkey" THEN << <<"extra", VNull>> >> ELSE <<>>))

SourceDoc(v) ==
    VMap(<< <<"interface", VStr(<<"e", "0">>)>>,
            <<"port", IF v = "portstr" THEN VStr(<<"1">>) ELSE VInt(1)>> >>)

TargetDoc(v) ==
    VMap(<< <<"addr", VStr(IF v = "badhost" THEN <<"x">> ELSE <<"h">>)>>,
            <<"port", VInt(2)>> >>)

\* a flow definition running for `time`
FlowDoc(v, time) ==
    IF v = "flownotdict" THEN VStr(<<"x">>)
    ELSE VMap(
        (IF v = "nokind" THEN <<>>
         ELSE IF v = "kindint" THEN << <<"kind", VInt(1)>> >>
         ELSE IF v = "bogus" THEN << <<"kind", VStr(<<"B", "o", "g", "u", "s">>)>> >>
         ELSE << <<"kind", VStr(TimedNoise)>> >>)
        \o (IF v = "notime" THEN <<>>
            ELSE IF v = "badtime" THEN << <<"time", VStr(<<"1", "x">>)>> >>
            ELSE IF v = "timefloat" THEN << <<"time", VFloat(Milli)>> >>
            ELSE IF v = "timeword"
                 THEN << <<"time", VStr(PyStr(time) \o <<"s", "e", "c">>)>> >>
            ELSE << <<"time", time>> >>)
        \o << <<"bandwidth", VStr(<<"8", "K", "b">>)>>, <<"chunk_size", VInt(1)>> >>
        \o (IF v = "nosource" THEN <<>> ELSE << <<"source", SourceDoc(v)>> >>)
        \o << <<"target", TargetDoc(v)>> >>
        \o (IF v = "unknownfield" THEN << <<"colour", VInt(1)>> >> ELSE <<>>))

NextField(v, next) ==
    IF v = "nonext" THEN <<>>
    ELSE IF v = "nextnotlist" THEN << <<"next", VStr(<<"x">>)>> >>
    ELSE IF v = "emptynext" THEN << <<"next", VList(<<>>)>> >>
    ELSE << <<"next", VList(next)>> >>

RECURSIVE RenderNode(_, _)
RenderNode(t, time) ==
    IF t.kids = <<>>
    THEN Keyed(t.v, "end", Body(t.v, "e", <<>>))
    ELSE Keyed(t.v, "flow",
             Body(t.v, "f",
                  (IF t.v = "noflow" THEN <<>>
                   ELSE << <<"flow", FlowDoc(t.v, time)>> >>)
                  \o NextField(t.v, [i \in 1..Len(t.kids) |->
                                        RenderNode(t.kids[i], time)])))

Render(t, time) ==
    Keyed(t.v, "start",
          Body(t.v, "s",
               NextField(t.v, [i \in 1..Len(t.kids) |-> RenderNode(t.kids[i], time)])))

\* the `time` values of generated flow definitions
Times == {VInt(0), VInt(1)}

\* the documents explored: the empty document, documents that are no
\* mapping, and every shape, well-formed or deviating in one node
Documents ==
    {VNull, VStr(<<"x">>), VMap(<<>>)}
    \cup {Render(t, time) : t \in Shapes \cup UNION {Mutate(s) : s \in Shapes},
                            time \in Times}

----------------------------------------------------------------------------
(* The process: main of workflow-agent.py and the flow threads *)

VARIABLES
    doc,        \* what yaml.load returns for the workflow file
    graph,      \* the arena of wf.graph (empty before the parse)
    pc,         \* where main is
    exitCode,   \* the exit status of the process (-1 while it runs)
    stack,      \* the work stack of main
    node,       \* the node popped last (0: none yet)
    waiting,    \* the flag of the wait loop
    notified,   \* the names the wait loop has logged for `node`
    idx,        \* the position of `for prev in node.incoming`
    threads,    \* per node, the state of each thread spawn() started
    popped      \* the nodes in the order main popped them

vars == <<doc, graph, pc, exitCode, stack, node, waiting, notified, idx,
          threads, popped>>

Running == pc \notin {"parse", "returned", "exited"}
Alive == pc \notin {"returned", "exited"}

IsFlowNode(n) == graph[n].kind = "Flow"
Done(n) == graph[n].flow.done
Spawned(n) == threads[n] # <<>>

Init ==
    /\ doc \in Documents
    /\ graph = <<>>
    /\ pc = "parse"
    /\ exitCode = -1
    /\ stack = <<>>
    /\ node = 0
    /\ waiting = FALSE
    /\ notified = {}
    /\ idx = 0
    /\ threads = <<>>
    /\ popped = <<>>

\* open() fails: main returns e.errno
OpenFail ==
    /\ pc = "parse"
    /\ pc' = "exited"
    /\ \E errno \in {2, 13} : exitCode' = errno
    /\ UNCHANGED <<doc, graph, stack, node, waiting, notified, idx, threads, popped>>

\* wf = Workflow.parse_handle(...); stack = [wf.graph]
Parse ==
    /\ pc = "parse"
    /\ LET wf == Workflow_parse_handle(doc)
       IN  IF wf.r = "ok"
           THEN /\ graph' = wf.val
                /\ threads' = [n \in 1..Len(wf.val) |-> <<>>] \o <<>>
                /\ stack' = <<1>>
                /\ pc' = "loop"
                /\ exitCode' = exitCode
           ELSE /\ pc' = "exited"
                /\ exitCode' = (IF wf.r = "exit" THEN wf.code ELSE 1)
                /\ UNCHANGED <<graph, threads, stack>>
    /\ UNCHANGED <<doc, node, waiting, notified, idx, popped>>

\* a loop that takes the topmost node whose incoming flows are all done
\* (the top of the stack when there is none)
PopReady ==
    /\ pc = "loop"
    /\ stack # <<>>
    /\ LET ready == {i \in 1..Len(stack) :
                        \A j \in 1..Len(graph[stack[i]].incoming) :
                            LET prev == graph[stack[i]].incoming[j]
                            IN  graph[prev].kind = "Flow" => graph[prev].flow.done}
           at == IF ready = {} THEN Len(stack)
                 ELSE CHOOSE i \in ready : \A j \in ready : j <= i
       IN  /\ node' = stack[at]
           /\ stack' = SubSeq(stack, 1, at - 1) \o SubSeq(stack, at + 1, Len(stack))
           /\ popped' = Append(popped, stack[at])
    /\ waiting' = TRUE
    /\ notified' = {}
    /\ pc' = "wait"
    /\ UNCHANGED <<doc, graph, exitCode, idx, threads>>

\* node = stack.pop(); waiting = True; notified = set()
Pop ==
    /\ pc = "loop"
    /\ stack # <<>>
    /\ node' = stack[Len(stack)]
    /\ stack' = SubSeq(stack, 1, Len(stack) - 1)
    /\ popped' = Append(popped, stack[Len(stack)])
    /\ waiting' = TRUE
    /\ notified' = {}
    /\ pc' = "wait"
    /\ UNCHANGED <<doc, graph, exitCode, idx, threads>>

\* `while waiting:` and, inside, `waiting = False` before the for loop
WaitTest ==
    /\ pc = "wait"
    /\ IF waiting
       THEN /\ waiting' = FALSE
            /\ idx' = 1
            /\ pc' = "check"
       ELSE /\ pc' = "dispatch"
            /\ UNCHANGED <<waiting, idx>>
    /\ UNCHANGED <<doc, graph, exitCode, stack, node, notified, threads, popped>>

\* a wait loop that never finds a flow to wait for
PendingNever(prev) == FALSE

\* the body of `for prev in node.incoming` for one prev: an incoming flow
\* node that is not done
Pending(prev) == IsFlowNode(prev) /\ ~Done(prev)

\* one pass of the for loop body: reads prev.flow.done once
Check ==
    /\ pc = "check"
    /\ idx <= Len(graph[node].incoming)
    /\ LET prev == graph[node].incoming[idx]
       IN  IF Pending(prev)
           THEN /\ notified' = notified \cup {graph[prev].name}
                /\ waiting' = TRUE
           ELSE UNCHANGED <<notified, waiting>>
    /\ idx' = idx + 1
    /\ UNCHANGED <<doc, graph, pc, exitCode, stack, node, threads, popped>>

\* a wait loop that gives up after its first sleep
SleepTimeout ==
    /\ pc = "check"
    /\ idx > Len(graph[node].incoming)
    /\ pc' = "dispatch"
    /\ UNCHANGED <<doc, graph, exitCode, stack, node, waiting, notified, idx,
                   threads, popped>>

\* the end of the for loop: `if waiting: time.sleep(0.5)`, back to the test
Sleep ==
    /\ pc = "check"
    /\ idx > Len(graph[node].incoming)
    /\ pc' = "wait"
    /\ UNCHANGED <<doc, graph, exitCode, stack, node, waiting, notified, idx,
                   threads, popped>>

\* a spawn that starts no thread
TimedNoiseFlow_spawnNever(thr, n) == thr

\* TimedNoiseFlow.spawn: a daemon thread, started at its while test
TimedNoiseFlow_spawn(thr, n) == [thr EXCEPT ![n] = Append(@, "loop")]

\* a main that pushes every child twice
PushedTwice(stk, n) == stk \o graph[n].outgoing \o graph[n].outgoing

\* the children of n as main pushes them: stack.append(next) in list order
Pushed(stk, n) == stk \o graph[n].outgoing

\* a main that marks the flow done itself when it spawns it
DispatchMarksDone ==
    /\ pc = "dispatch"
    /\ threads' = IF IsFlowNode(node) THEN TimedNoiseFlow_spawn(threads, node)
                  ELSE threads
    /\ graph' = IF IsFlowNode(node) THEN [graph EXCEPT ![node].flow.done = TRUE]
                ELSE graph
    /\ stack' = Pushed(stack, node)
    /\ pc' = "loop"
    /\ UNCHANGED <<doc, exitCode, node, waiting, notified, idx, popped>>

\* a main that moves the children out of node.outgoing onto the stack
DispatchDrains ==
    /\ pc = "dispatch"
    /\ threads' = IF IsFlowNode(node) THEN TimedNoiseFlow_spawn(threads, node)
                  ELSE threads
    /\ graph' = [graph EXCEPT ![node].outgoing = <<>>]
    /\ stack' = Pushed(stack, node)
    /\ pc' = "loop"
    /\ UNCHANGED <<doc, exitCode, node, waiting, notified, idx, popped>>

\* `if isinstance(node, FlowNode): node.flow.spawn()`, then the pushes
Dispatch ==
    /\ pc = "dispatch"
    /\ threads' = IF IsFlowNode(node) THEN TimedNoiseFlow_spawn(threads, node)
                  ELSE threads
    /\ stack' = Pushed(stack, node)
    /\ pc' = "loop"
    /\ UNCHANGED <<doc, graph, exitCode, node, waiting, notified, idx, popped>>

\* the stack is empty: return 0, and the process exits with it
Return ==
    /\ pc = "loop"
    /\ stack = <<>>
    /\ pc' = "returned"
    /\ exitCode' = 0
    /\ UNCHANGED <<doc, graph, stack, node, waiting, notified, idx, threads, popped>>

\* `while time.time() - start < self.time.amount` with e seconds elapsed
FlowTest(n, k) ==
    /\ Alive
    /\ n \in 1..Len(threads) /\ k \in 1..Len(threads[n])
    /\ threads[n][k] = "loop"
    /\ \E e \in 0..MaxElapsed :
          threads' = [threads EXCEPT ![n][k] =
                         IF e * Milli < graph[n].flow.time THEN "send" ELSE "exit"]
    /\ UNCHANGED <<doc, graph, pc, exitCode, stack, node, waiting, notified, idx,
                   popped>>

\* sock.send(chunk, (addr, port)): the second argument of socket.send is a
\* flags int, so the call raises TypeError and the thread ends
FlowSend(n, k) ==
    /\ Alive
    /\ n \in 1..Len(threads) /\ k \in 1..Len(threads[n])
    /\ threads[n][k] = "send"
    /\ threads' = [threads EXCEPT ![n][k] = "failed"]
    /\ UNCHANGED <<doc, graph, pc, exitCode, stack, node, waiting, notified, idx,
                   popped>>

\* self.done = True
FlowDone(n, k) ==
    /\ Alive
    /\ n \in 1..Len(threads) /\ k \in 1..Len(threads[n])
    /\ threads[n][k] = "exit"
    /\ threads' = [threads EXCEPT ![n][k] = "finished"]
    /\ graph' = [graph EXCEPT ![n].flow.done = TRUE]
    /\ UNCHANGED <<doc, pc, exitCode, stack, node, waiting, notified, idx, popped>>

\* most threads of one flow (a node is spawned once per pop)
MaxThreads == 2

Engine == Pop \/ WaitTest \/ Check \/ Sleep \/ Dispatch \/ Return
Flows ==
    \E n \in 1..(MaxNodes + 1), k \in 1..MaxThreads :
        FlowTest(n, k) \/ FlowSend(n, k) \/ FlowDone(n, k)

Next == OpenFail \/ Parse \/ Engine \/ Flows

Spec == Init /\ [][Next]_vars

\* The interpreter schedules every runnable thread: main keeps polling and
\* each flow thread takes its next step.
Fairness ==
    /\ WF_vars(OpenFail \/ Parse \/ Engine)
    /\ \A n \in 1..(MaxNodes + 1), k \in 1..MaxThreads :
          WF_vars(FlowTest(n, k) \/ FlowSend(n, k) \/ FlowDone(n, k))

FairSpec == Spec /\ Fairness

----------------------------------------------------------------------------
(* Graphs put together with the constructors (Node.__init__ takes any      *)
(* incoming and outgoing lists), which no document yields: a node with two *)
(* incoming flow nodes.                                                    *)

BuiltFlow(time) ==
    TimedNoiseFlow_init(time, Milli, Milli, [interface |-> <<"e", "0">>, port |-> 1],
                        [addr |-> <<"h">>, port |-> 2])

\* Start -> [A, B], A -> J, B -> J
Diamond(ta, tb) ==
    << Node_init("Start", VStr(<<"s">>), NoFlow, <<>>, <<2, 3>>),
       Node_init("Flow", VStr(<<"a">>), BuiltFlow(ta), <<1>>, <<4>>),
       Node_init("Flow", VStr(<<"b">>), BuiltFlow(tb), <<1>>, <<4>>),
       Node_init("End", VStr(<<"j">>), NoFlow, <<2, 3>>, <<>>) >>

\* Start -> A, A -> [J, B], B -> J
Funnel(ta, tb) ==
    << Node_init("Start", VStr(<<"s">>), NoFlow, <<>>, <<2>>),
       Node_init("Flow", VStr(<<"a">>), BuiltFlow(ta), <<1>>, <<4, 3>>),
       Node_init("Flow", VStr(<<"b">>), BuiltFlow(tb), <<2>>, <<4>>),
       Node_init("End", VStr(<<"j">>), NoFlow, <<2, 3>>, <<>>) >>

BuiltGraphs ==
    {Diamond(ta, tb) : ta \in {0, Milli}, tb \in {0, Milli}}
    \cup {Funnel(ta, tb) : ta \in {0, Milli}, tb \in {0, Milli}}

\* main's loop entered with stack = [graph] for a built graph
InitBuilt ==
    /\ doc = VNull
    /\ graph \in BuiltGraphs
    /\ pc = "loop"
    /\ exitCode = -1
    /\ stack = <<1>>
    /\ node = 0
    /\ waiting = FALSE
    /\ notified = {}
    /\ idx = 0
    /\ threads = <<<<>>, <<>>, <<>>, <<>>>>
    /\ popped = <<>>

NextBuilt == Engine \/ Flows

BuiltFairness ==
    /\ WF_vars(Engine)
    /\ \A n \in 1..(MaxNodes + 1), k \in 1..MaxThreads :
          WF_vars(FlowTest(n, k) \/ FlowSend(n, k) \/ FlowDone(n, k))

SpecBuilt == InitBuilt /\ [][NextBuilt]_vars /\ BuiltFairness

----------------------------------------------------------------------------
(* Workflow files with one flow, whose definition varies field by field.   *)
(* The text of a file is written with the same tagged records as a loaded  *)
(* value, except that a mapping of the text may give a key twice.          *)

\* the last place of key k in a mapping of the text
LastIndex(items, k) ==
    CHOOSE i \in 1..Len(items) :
        items[i][1] = k /\ \A j \in 1..Len(items) : items[j][1] = k => j <= i

RECURSIVE yaml_load(_)
RECURSIVE LoadItems(_, _)
\* the dict built from a mapping: a key given again keeps its first place
\* and takes the last value
LoadItems(items, i) ==
    IF i > Len(items) THEN <<>>
    ELSE (IF \E j \in 1..(i - 1) : items[j][1] = items[i][1] THEN <<>>
          ELSE << <<items[i][1],
                    yaml_load(items[LastIndex(items, items[i][1])][2])>> >>)
         \o LoadItems(items, i + 1)

\* yaml.load(raw, Loader=yaml.Loader)
yaml_load(x) ==
    IF x.t = "map" THEN VMap(LoadItems(x.items, 1))
    ELSE IF x.t = "list"
    THEN VList([i \in 1..Len(x.elems) |-> yaml_load(x.elems[i])] \o <<>>)
    ELSE x

\* largest whole number written in front of a unit
MaxAmount == 2

Amounts == {IntToStr(n) : n \in 0..MaxAmount}
\* the amounts in front of an M or G unit (a thousandth: larger ones leave
\* the range of the model's integers)
SmallAmounts == {<<"0", ".", "0", "0", "1">>}
Spacings == {<<>>, <<" ">>}

\* the unit words of a duration and the seconds each stands for
DurationUnits ==
    << <<<<"s", "e", "c", "o", "n", "d", "s">>, 1>>,
       <<<<"s", "e", "c">>, 1>>,
       <<<<"s">>, 1>>,
       <<<<"m", "i", "n", "u", "t", "e", "s">>, 60>>,
       <<<<"m", "i", "n">>, 60>>,
       <<<<"m">>, 60>>,
       <<<<"h", "o", "u", "r", "s">>, 3600>>,
       <<<<"h", "r">>, 3600>>,
       <<<<"h">>, 3600>> >>

\* the unit words of a byte amount up to K and the bytes each stands for,
\* as <<unit, num, den>>
ByteUnits ==
    << <<<<"K", "i", "b">>, 128, 1>>,
       <<<<"K", "b">>, 125, 1>>,
       <<<<"K", "i", "B">>, 1024, 1>>,
       <<<<"K", "B">>, 1000, 1>>,
       <<<<"b">>, 1, 8>>,
       <<<<"B">>, 1, 1>> >>

\* the M and G units
LargeUnits ==
    << <<<<"M", "i", "b">>, 131072, 1>>,
       <<<<"M", "b">>, 125000, 1>>,
       <<<<"M", "i", "B">>, 1048576, 1>>,
       <<<<"M", "B">>, 1000000, 1>>,
       <<<<"G", "i", "b">>, 134217728, 1>>,
       <<<<"G", "b">>, 125000000, 1>>,
       <<<<"G", "i", "B">>, 1073741824, 1>>,
       <<<<"G", "B">>, 1000000000, 1>> >>

\* whole amounts at the unit boundaries of the formatters
DurationBoundaries == {59, 60, 3599, 3600}
ByteBoundaries == {124, 125, 127, 128, 999, 1000, 1023, 1024}

TimeTexts ==
    {VInt(n) : n \in (0..MaxAmount) \cup DurationBoundaries}
    \cup {VStr(a \o sp \o DurationUnits[u][1]) :
             a \in Amounts, sp \in Spacings, u \in 1..Len(DurationUnits)}

BandwidthTexts ==
    {VInt(n) : n \in ByteBoundaries}
    \cup {VStr(a \o sp \o ByteUnits[u][1]) :
             a \in Amounts, sp \in Spacings, u \in 1..Len(ByteUnits)}
    \cup {VStr(a \o sp \o LargeUnits[u][1]) :
             a \in SmallAmounts, sp \in Spacings, u \in 1..Len(LargeUnits)}

\* how an endpoint object of the text deviates from a well-formed one
EndpointVariants ==
    {"ok", "unknown", "nohost", "noport", "hostint", "portstr", "bothmissing",
     "portagain", "unresolved"}

\* an endpoint object: `host` is its string field ("interface" or "addr")
EndpointText(v, host, name) ==
    VMap((IF v \in {"nohost", "bothmissing"} THEN <<>>
          ELSE IF v = "hostint" THEN << <<host, VInt(7)>> >>
          ELSE IF v = "unresolved" THEN << <<host, VStr(<<"x">>)>> >>
          ELSE << <<host, VStr(name)>> >>)
         \o (IF v \in {"noport", "bothmissing"} THEN <<>>
             ELSE IF v = "portstr" THEN << <<"port", VStr(<<"1">>)>> >>
             ELSE << <<"port", VInt(1)>> >>)
         \o (IF v = "portagain" THEN << <<"port", VInt(2)>> >> ELSE <<>>)
         \o (IF v = "unknown" THEN << <<"colour", VInt(1)>> >> ELSE <<>>))

SourceText(v) == EndpointText(v, "interface", <<"e", "0">>)
TargetText(v) == EndpointText(v, "addr", <<"h">>)

\* the file: start -> flow f -> end
FieldText(time, bandwidth, source, target) ==
    Keyed("ok", "start",
        Body("ok", "s",
            NextField("ok",
                << Keyed("ok", "flow",
                       Body("ok", "f",
                           << <<"flow",
                                VMap(<< <<"kind", VStr(TimedNoise)>>,
                                        <<"time", time>>,
                                        <<"bandwidth", bandwidth>>,
                                        <<"chunk_size", VInt(1)>>,
                                        <<"source", source>>,
                                        <<"target", target>> >>)>> >>
                           \o NextField("ok",
                                  << Keyed("ok", "end", Body("ok", "e", <<>>)) >>))) >>)))

DefaultBandwidth == VStr(<<"8", "K", "b">>)

\* the files explored: one field varies, the others are well formed
FieldTexts ==
    {FieldText(t, DefaultBandwidth, SourceText("ok"), TargetText("ok")) :
        t \in TimeTexts}
    \cup {FieldText(VInt(0), b, SourceText("ok"), TargetText("ok")) :
             b \in BandwidthTexts}
    \cup {FieldText(VInt(0), DefaultBandwidth, SourceText(v), TargetText(w)) :
             v \in EndpointVariants \ {"unresolved"}, w \in EndpointVariants}

FieldDocuments == {yaml_load(t) : t \in FieldTexts}

\* main started on one of these files
InitFields ==
    /\ doc \in FieldDocuments
    /\ graph = <<>>
    /\ pc = "parse"
    /\ exitCode = -1
    /\ stack = <<>>
    /\ node = 0
    /\ waiting = FALSE
    /\ notified = {}
    /\ idx = 0
    /\ threads = <<>>
    /\ popped = <<>>

SpecFields == InitFields /\ [][Next]_vars

\* the flow definition of a loaded file, and one field of it
FlowFields(d) ==
    GetKey(GetKey(GetKey(GetKey(d, "start"), "next").elems[1], "flow"), "flow")
Field(d, name) == GetKey(FlowFields(d), name)

\* the parser ended the process
ParseFailed == pc = "exited" /\ exitCode = 1
\* the parser returned a Workflow
Parsed == graph # <<>>

----------------------------------------------------------------------------
(* Vocabulary of the properties *)

Nodes == 1..Len(graph)
FlowNodes == {n \in Nodes : IsFlowNode(n)}
IncomingFlows(n) ==
    {graph[n].incoming[i] : i \in 1..Len(graph[n].incoming)} \cap FlowNodes
Outgoing(n) == {graph[n].outgoing[i] : i \in 1..Len(graph[n].outgoing)}
Incoming(n) == {graph[n].incoming[i] : i \in 1..Len(graph[n].incoming)}

\* the nodes whose wait loop has ended: their flow is spawned and their
\* children are pushed, or are about to be
Processed ==
    {popped[i] : i \in {j \in 1..Len(popped) :
                           j < Len(popped) \/ pc \in {"dispatch", "loop", "returned"}}}

\* main is at the end of a pass of the wait loop and is going to sleep
Sleeping == pc = "check" /\ idx > Len(graph[node].incoming) /\ waiting

\* the place of node n in the order of pops (0: not popped)
PopIndex(n) ==
    IF \E i \in 1..Len(popped) : popped[i] = n
    THEN CHOOSE i \in 1..Len(popped) :
            popped[i] = n /\ \A j \in 1..Len(popped) : popped[j] = n => i <= j
    ELSE 0

\* flow node n has been spawned / has set done
Started(n) == n \in FlowNodes /\ Spawned(n)
Completed(n) == n \in FlowNodes /\ Done(n)
InFlight(n) == Started(n) /\ ~Completed(n)

\* a and b are children of one parent, with no edge between them
Siblings(a, b) ==
    /\ a # b
    /\ \E p \in Nodes : a \in Outgoing(p) /\ b \in Outgoing(p)
    /\ b \notin Outgoing(a) /\ a \notin Outgoing(b)

RECURSIVE ReachFrom(_, _)
ReachFrom(S, fuel) ==
    IF fuel = 0 THEN S
    ELSE ReachFrom(S \cup UNION {Outgoing(n) : n \in S}, fuel - 1)
\* the nodes reachable from Start
Reachable == IF graph = <<>> THEN {} ELSE ReachFrom({1}, Len(graph))

\* the documents of every shape in which one node deviates by one of `dev`
Deviating(dev) ==
    {Render(m, time) :
        m \in UNION {MutateBy(t, StartVariants \cap dev, FlowVariants \cap dev,
                              EndVariants \cap dev) : t \in Shapes},
        time \in Times}

----------------------------------------------------------------------------
(* Properties *)

\* C1: a node is processed (its flow spawned, its children pushed) only when
\* every flow node in its incoming list is done; and main sleeps in the wait
\* loop only for a node that has an incoming flow node, so a flow below Start
\* is spawned without any wait.
DependencyGating ==
    /\ \A n \in Processed : \A prev \in IncomingFlows(n) : Done(prev)
    /\ Sleeping => IncomingFlows(node) # {}

\* an End node is dispatched after the flow before it has set done
DependencyGatingWitness ==
    /\ pc = "dispatch"
    /\ graph[node].kind = "End"
    /\ \E prev \in IncomingFlows(node) : Done(prev)

\* C2: the engine spawns a flow's sibling without waiting for the flow to
\* finish: main never sleeps on a flow that is not done while a sibling flow
\* of it is still unspawned.
SiblingConcurrency ==
    Sleeping =>
        \A a \in IncomingFlows(node) :
            ~Done(a) => \A b \in FlowNodes : Siblings(a, b) => Spawned(b)

JoinNodes == {n \in Nodes : Cardinality(IncomingFlows(n)) >= 2}

\* no flow thread has died in its loop
NoFlowFailed ==
    \A n \in Nodes : \A k \in 1..Len(threads[n]) : threads[n][k] # "failed"

SpawnLiveness ==
    \A n \in 1..(MaxNodes + 1) : [](Started(n) => <>Completed(n))

\* C5: while a spawned flow has not set done, main is at that flow's node
\* (about to pop) or in the wait loop of the successor popped right after
\* it, and it has not returned; and no step taken while the flow stays not
\* done processes a node, spawns a flow or returns.
StalledFlowStarves ==
    /\ [](\A f \in FlowNodes :
            InFlight(f) =>
                LET L == Len(popped)
                IN  \/ popped[L] = f /\ pc = "loop"
                    \/ /\ L >= 2
                       /\ popped[L - 1] = f
                       /\ popped[L] \in Outgoing(f)
                       /\ pc \in {"wait", "check"})
    /\ [][(\E f \in FlowNodes : InFlight(f) /\ InFlight(f)')
            => /\ Processed' = Processed
               /\ \A g \in Nodes : Len(threads'[g]) = Len(threads[g])
               /\ pc' # "returned"]_vars

\* a flow thread has died in its loop, main sleeps in the wait loop of the
\* flow's successor, and a node that does not depend on the flow is still
\* on the stack
StalledFlowStarvesWitness ==
    /\ Sleeping
    /\ stack # <<>>
    /\ \E f \in IncomingFlows(node) :
          /\ threads[f] = <<"failed">>
          /\ \E i \in 1..Len(stack) : f \notin Incoming(stack[i])

\* C6, as amended: when main returns 0 for a parsed workflow, every flow it
\* spawned has set done.
AllDoneAtReturn ==
    pc = "returned" => \A n \in FlowNodes : Spawned(n) => Done(n)

\* main has returned after spawning a flow
AllDoneAtReturnWitness ==
    pc = "returned" /\ \E n \in FlowNodes : Spawned(n)

\* C6, as stated: main returns 0 while a flow it spawned has not set done
\* (read at every return that follows a spawn).
AbandonedAtReturn ==
    (pc = "returned" /\ \E n \in FlowNodes : Spawned(n))
        => \E n \in FlowNodes : InFlight(n)

\* C7: a child that comes earlier in its parent's `next` list is popped
\* earlier.
DocumentOrderDispatch ==
    \A p \in Nodes :
        \A i, j \in 1..Len(graph[p].outgoing) :
            (i < j /\ PopIndex(graph[p].outgoing[j]) > 0)
                => /\ PopIndex(graph[p].outgoing[i]) > 0
                   /\ PopIndex(graph[p].outgoing[i]) < PopIndex(graph[p].outgoing[j])

\* the deviations C8 lists: an unknown kind, a missing or mistyped required
\* field, an unparsable quantity
FatalVariants ==
    {"bogus", "noname", "noflow", "nokind", "notime", "nosource", "nonext",
     "nameint", "notdict", "flownotdict", "kindint", "timefloat", "portstr",
     "nextnotlist", "badtime"}

FatalDocuments == Deviating(FatalVariants)

\* C8: a document with a fatal condition at any depth gives no Workflow: the
\* process exits with a nonzero code, no graph exists and nothing is spawned.
FatalStopsEverything ==
    (doc \in FatalDocuments /\ pc # "parse")
        => pc = "exited" /\ exitCode # 0 /\ graph = <<>> /\ threads = <<>>

PlainKey(k) ==
    IF k = "<start>" THEN "start"
    ELSE IF k = "<flow>" THEN "flow"
    ELSE IF k = "<end>" THEN "end"
    ELSE k

RECURSIVE Unalias(_)
\* the document with every bracketed node key replaced by the plain one
Unalias(x) ==
    IF x.t = "map"
    THEN VMap([i \in 1..Len(x.items) |->
                  <<PlainKey(x.items[i][1]), Unalias(x.items[i][2])>>] \o <<>>)
    ELSE IF x.t = "list"
    THEN VList([i \in 1..Len(x.elems) |-> Unalias(x.elems[i])] \o <<>>)
    ELSE x

\* C9: a document parses exactly like the same document with its bracketed
\* keys (<start>, <flow>, <end>) written plainly.
KeyAliases ==
    Workflow_parse_handle(doc) = Workflow_parse_handle(Unalias(doc))

\* every node reachable from Start that is no End node has an outgoing
\* edge, and every node but Start has an incoming edge
WellFormedGraph ==
    /\ \A n \in Reachable : graph[n].kind # "End" => Len(graph[n].outgoing) >= 1
    /\ \A n \in Nodes : graph[n].kind # "Start" => Len(graph[n].incoming) >= 1

EmptyNextDocuments == Deviating({"emptynext"})

\* a Start or Flow definition with an empty `next` list is rejected
EmptyNextRejected ==
    (doc \in EmptyNextDocuments /\ pc # "parse")
        => pc = "exited" /\ exitCode # 0

\* C10, as amended: the graph parsed from a document that is not empty is
\* well formed, and a definition with an empty `next` list is rejected.
GraphInvariantNonEmpty ==
    /\ (pc \notin {"parse", "exited"} /\ doc.t # "null") => WellFormedGraph
    /\ EmptyNextRejected

\* a graph of a Start node, a flow node and more has been parsed
GraphInvariantWitness ==
    pc = "loop" /\ doc.t # "null" /\ Len(graph) >= 3 /\ FlowNodes # {}

\* C10, as stated: the graph parsed from any document, the empty one
\* included, is well formed.
GraphInvariant ==
    /\ pc \notin {"parse", "exited"} => WellFormedGraph
    /\ EmptyNextRejected

\* C11: in every graph the parser returns, and in every state of the run
\* that follows, for all nodes P and C: C is in P.outgoing if and only if P
\* is in C.incoming.
EdgeSymmetry ==
    \A p \in Nodes : \A c \in Nodes :
        (c \in Outgoing(p)) <=> (p \in Incoming(c))

\* a run on a graph with two edges or more has ended, a flow having set done
EdgeSymmetryWitness ==
    pc = "returned" /\ Len(graph) >= 4 /\ \E n \in FlowNodes : Done(n)

\* the graph of the empty document: one Start node without edges
EmptyGraph == <<Node_init("Start", VStr(StartName), NoFlow, <<>>, <<>>)>>

\* C12: for the empty document the parser yields a Start node with no
\* outgoing and no incoming node (the process never ends in the parser);
\* main pops exactly that node, spawns no flow, examines no predecessor and
\* never waits in the wait loop (its single pass sets no flag, logs nothing
\* and does not sleep), and it returns 0: once parsed, the run always
\* reaches the return.
EmptyDocument ==
    /\ [](doc.t = "null" =>
            /\ pc = "exited" => graph = <<>> /\ exitCode # 1
            /\ pc \notin {"parse", "exited"} =>
                  /\ graph = EmptyGraph
                  /\ popped \in {<<>>, <<1>>}
                  /\ threads = <<<<>>>>
                  /\ notified = {}
                  /\ ~Sleeping
                  /\ pc = "check" => ~waiting /\ idx > Len(graph[node].incoming)
                  /\ pc = "dispatch" => ~waiting
                  /\ pc = "returned" => exitCode = 0 /\ popped = <<1>>)
    /\ (doc.t = "null" /\ pc = "loop") ~> (pc = "returned" /\ exitCode = 0)

\* main has returned 0 for the empty document
EmptyDocumentWitness ==
    doc.t = "null" /\ pc = "returned" /\ exitCode = 0 /\ popped = <<1>>

\* C13: for every whole number n and every unit word of a duration, full
\* or abbreviated, with or without a space before it, Duration._parse gives
\* n times the seconds of that unit ("n seconds" n, "n minutes" 60*n,
\* "n hours" 3600*n), so that a workflow file with that `time` parses into a
\* flow of that duration.
DurationSuffixPrecedence ==
    \A u \in 1..Len(DurationUnits), n \in 0..MaxAmount, sp \in Spacings :
        LET text == IntToStr(n) \o sp \o DurationUnits[u][1]
            want == n * DurationUnits[u][2] * Milli
        IN  (pc # "parse" /\ Field(doc, "time") = VStr(text)) =>
                /\ Duration_parse(text) = Some(want)
                /\ ~ParseFailed
                /\ Parsed => graph[2].flow.time = want

\* format, parse, format again: the text is parsed and comes back the same
\* (asked of the amounts whose text is exact in thousandths)
RoundTrip(Format(_), Read(_), m) ==
    LET h == Format(m)
    IN  h.exact =>
            LET back == Read(h.text)
            IN  back.r = "ok" /\ Format(back.val).text = h.text

\* C14: for every flow parsed from a file that gives its bandwidth (its
\* duration) as a whole number of bytes (seconds), the unit boundaries
\* included, each byte formatter and the duration formatter round-trip
\* through Bytes._parse and Duration._parse; parsing a formatted value never
\* fails.
QuantityRoundTrip ==
    Parsed =>
        /\ \A m \in {graph[2].flow.chunk_size}
                \cup (IF IsInt(Field(doc, "bandwidth"))
                      THEN {graph[2].flow.bandwidth} ELSE {}) :
              /\ RoundTrip(as_human_bytes, Bytes_parse, m)
              /\ RoundTrip(as_human_bibi_bytes, Bytes_parse, m)
              /\ RoundTrip(as_human_bits, Bytes_parse, m)
              /\ RoundTrip(as_human_bibi_bits, Bytes_parse, m)
        /\ IsInt(Field(doc, "time")) =>
              RoundTrip(as_human_duration, Duration_parse, graph[2].flow.time)

\* the amount in thousandths that `a unit` stands for
Stands(a, unit) == (unit[2] * FloatVal(a)) \div unit[3]

\* a file whose bandwidth is `a`, perhaps a space, and the unit word gives
\* a flow of that many bytes
UnitResolved(a, sp, unit) ==
    LET text == a \o sp \o unit[1]
    IN  (pc # "parse" /\ Field(doc, "bandwidth") = VStr(text)) =>
            /\ Bytes_parse(text) = Some(Stands(a, unit))
            /\ ~ParseFailed
            /\ Parsed => graph[2].flow.bandwidth = Stands(a, unit)

\* C15: Bytes._parse resolves every byte unit to its own factor, whatever
\* shorter unit is its tail: 1Kib is 128 bytes, 1Kb 125, 1KB 1000, and the
\* Ki/M/Mi/G/Gi units are never taken for a bare b or B.
ByteSuffixPrecedence ==
    /\ \A u \in 1..Len(ByteUnits), a \in Amounts, sp \in Spacings :
          UnitResolved(a, sp, ByteUnits[u])
    /\ \A u \in 1..Len(LargeUnits), a \in SmallAmounts, sp \in Spacings :
          UnitResolved(a, sp, LargeUnits[u])

\* the file with bandwidth 1Kib has been parsed into a flow of 128 bytes
ByteSuffixPrecedenceWitness ==
    /\ pc = "loop"
    /\ Field(doc, "bandwidth") = VStr(<<"1", "K", "i", "b">>)
    /\ graph[2].flow.bandwidth = 128 * Milli

\* both required fields of an endpoint object are there with the right type
Required(obj, host) ==
    /\ HasKey(obj, host) /\ IsStr(GetKey(obj, host))
    /\ HasKey(obj, "port") /\ IsInt(GetKey(obj, "port"))

RECURSIVE KnownItems(_, _, _)
KnownItems(items, host, i) ==
    IF i > Len(items) THEN <<>>
    ELSE (IF items[i][1] \in {host, "port"} THEN <<items[i]>> ELSE <<>>)
         \o KnownItems(items, host, i + 1)
\* the endpoint object without its unknown fields
WithoutUnknown(obj, host) == VMap(KnownItems(obj.items, host, 1))

\* the addr of a target object resolves
Resolves(obj) == GetKey(obj, "addr").v \in KnownHosts

\* what both endpoint parsers share: no value for a missing or mistyped
\* required field, and a result that unknown fields do not change; a file
\* with such an endpoint gives no Workflow, and a parsed flow carries the
\* parsed endpoints
EndpointFields ==
    LET src == Field(doc, "source")
        tgt == Field(doc, "target")
    IN  /\ (SourceInfo_parse(src).r = "ok") <=> Required(src, "interface")
        /\ ~Required(src, "interface") => IsNone(SourceInfo_parse(src))
        /\ ~Required(tgt, "addr") => IsNone(TargetInfo_parse(tgt))
        /\ SourceInfo_parse(src) = SourceInfo_parse(WithoutUnknown(src, "interface"))
        /\ TargetInfo_parse(tgt) = TargetInfo_parse(WithoutUnknown(tgt, "addr"))
        /\ (~Required(src, "interface") \/ ~Required(tgt, "addr")) =>
              ~Parsed /\ pc = "exited" /\ exitCode # 0
        /\ Parsed => /\ Some(graph[2].flow.source) = SourceInfo_parse(src)
                     /\ Some(graph[2].flow.target) = TargetInfo_parse(tgt)

\* C16, as amended: SourceInfo._parse returns a value if and only if both
\* required fields are present with the right type; TargetInfo._parse does
\* if and only if, in addition, addr resolves, and ends the process with
\* exit(1) when it does not.  Unknown fields change nothing, a missing or
\* mistyped required field gives no value.
EndpointValidationResolved ==
    pc # "parse" =>
        /\ EndpointFields
        /\ LET tgt == Field(doc, "target")
           IN  /\ (TargetInfo_parse(tgt).r = "ok")
                     <=> (Required(tgt, "addr") /\ Resolves(tgt))
               /\ (Required(tgt, "addr") /\ ~Resolves(tgt)) =>
                     /\ TargetInfo_parse(tgt) = Exit(1)
                     /\ ~Parsed /\ pc = "exited" /\ exitCode # 0

\* a file whose endpoints both carry an unknown field has been parsed
EndpointValidationWitness ==
    /\ pc = "loop"
    /\ Field(doc, "source") = yaml_load(SourceText("unknown"))
    /\ Field(doc, "target") = yaml_load(TargetText("unknown"))
    /\ graph[2].flow.source = [interface |-> <<"e", "0">>, port |-> 1]

\* C16, as stated: each endpoint parser returns a value if and only if both
\* required fields are present with the right type.
EndpointValidation ==
    pc # "parse" =>
        /\ EndpointFields
        /\ (TargetInfo_parse(Field(doc, "target")).r = "ok")
              <=> Required(Field(doc, "target"), "addr")

\* the file whose source object gives `port` twice
DuplicatePortText ==
    FieldText(VInt(0), DefaultBandwidth, SourceText("portagain"), TargetText("ok"))

\* C17: a file whose source object gives `port` twice is rejected:
\* SourceInfo._parse returns no value for the loaded source object and the
\* process ends with a nonzero code without a Workflow.
DuplicateFieldRejected ==
    (pc # "parse" /\ doc = yaml_load(DuplicatePortText)) =>
        /\ IsNone(SourceInfo_parse(Field(doc, "source")))
        /\ pc = "exited" /\ exitCode # 0 /\ ~Parsed

\* the fields of main: where it is, its stack and the locals of its loop
MainState == <<pc, exitCode, stack, node, waiting, notified, idx, popped>>

\* C18: every flow's done flag is false when the flow is constructed; it is
\* never reset to false (so it changes from false to true at most once in a
\* run); the step that sets it is a step of a thread of that flow leaving
\* its loop, in which main does nothing; and a flow that is done has been
\* spawned.
DoneDiscipline ==
    /\ [](\A n \in FlowNodes : Done(n) => Spawned(n))
    /\ [][/\ graph = <<>> =>
                \A n \in 1..Len(graph') :
                    graph'[n].kind = "Flow" => ~graph'[n].flow.done
          /\ \A n \in FlowNodes :
                /\ Done(n) => graph'[n].flow.done
                /\ (~Done(n) /\ graph'[n].flow.done) =>
                      /\ MainState' = MainState
                      /\ \E k \in 1..Len(threads[n]) :
                            threads[n][k] = "exit" /\ threads'[n][k] = "finished"]_vars

\* a flow has set done, its one thread having finished
DoneDisciplineWitness ==
    \E n \in FlowNodes : Done(n) /\ threads[n] = <<"finished">>

\* the graph g with every done flag put back to False
Frozen(g) ==
    [n \in 1..Len(g) |->
        IF g[n].kind = "Flow" THEN [g[n] EXCEPT !.flow.done = FALSE] ELSE g[n]]

\* C19: no step of main or of a flow thread changes a node's name, its
\* incoming or outgoing list or a parameter of its flow: from the parse on,
\* the graph changes in its done flags only.
GraphReadOnly ==
    [][graph # <<>> => Frozen(graph') = Frozen(graph)]_vars

\* a run has ended and the graph differs from the parsed one, in done
GraphReadOnlyWitness ==
    /\ pc = "returned"
    /\ Len(graph) >= 3
    /\ Frozen(graph) # graph

RECURSIVE Walk(_, _)
\* the order of pops that the stack discipline alone gives for graph g,
\* from the stack stk on: the last element, then its children pushed in
\* list order
Walk(g, stk) ==
    IF stk = <<>> THEN <<>>
    ELSE LET n == stk[Len(stk)]
         IN  <<n>> \o Walk(g, SubSeq(stk, 1, Len(stk) - 1) \o g[n].outgoing)

IsPrefix(a, b) == Len(a) <= Len(b) /\ SubSeq(b, 1, Len(a)) = a

\* C20: the sequence of nodes popped is a function of the graph alone: in
\* every run, whatever the steps of the flow threads, it is a prefix of
\* the one order the stack discipline gives (the whole of it when main
\* returns), and flows are spawned in that order, each after its pop.
DeterministicTraversal ==
    graph # <<>> =>
        /\ IsPrefix(popped, Walk(graph, <<1>>))
        /\ pc = "returned" => popped = Walk(graph, <<1>>)
        /\ \A n \in FlowNodes : Spawned(n) => n \in Processed

\* a run over two flows or more has ended
DeterministicTraversalWitness ==
    /\ pc = "returned"
    /\ Cardinality(FlowNodes) >= 2
    /\ popped = Walk(graph, <<1>>)

\* the nodes that a path of one edge or more leads to from n
Below(n) == ReachFrom(Outgoing(n), Len(graph))

\* how many times n stands in the list s
Count(s, n) == Cardinality({i \in 1..Len(s) : s[i] = n})

\* C21: in every graph the parser returns (and, the graph being read-only,
\* at every later state of the run) Start has no incoming node; every other
\* node has exactly one incoming node, its parent, in whose outgoing list it
\* stands exactly once; no node stands in the outgoing lists of two parents;
\* no path leads from a node back to itself; and every node is reachable
\* from Start.
ParsedTree ==
    graph # <<>> =>
        /\ graph[1].kind = "Start" /\ graph[1].incoming = <<>>
        /\ \A n \in Nodes \ {1} :
              /\ graph[n].kind # "Start"
              /\ Len(graph[n].incoming) = 1
              /\ Count(graph[graph[n].incoming[1]].outgoing, n) = 1
              /\ \A p \in Nodes : n \in Outgoing(p) => p = graph[n].incoming[1]
        /\ \A n \in Nodes : n \notin Below(n)
        /\ Reachable = Nodes

\* the parser has returned a graph in which one node has two children and
\* another node lies two edges below Start
ParsedTreeWitness ==
    /\ pc = "loop"
    /\ popped = <<>>
    /\ \E p \in Nodes : Cardinality(Outgoing(p)) >= 2
    /\ \E n \in Nodes \ {1} : graph[n].incoming[1] # 1

\* how many of the pops have gone through the dispatch: all but the pop of
\* the node that main is still waiting for or about to dispatch
Dispatched ==
    IF pc \in {"wait", "check", "dispatch"} THEN Len(popped) - 1 ELSE Len(popped)

RECURSIVE PushesBy(_, _)
\* the pushes of n made by the first k pops: one per place of n in the
\* outgoing list of the node popped
PushesBy(k, n) ==
    IF k = 0 THEN 0
    ELSE Count(graph[popped[k]].outgoing, n) + PushesBy(k - 1, n)

\* every push of n is still on the stack or has been popped, and n has
\* been pushed once per edge from a node dispatched so far (Start once, by
\* `stack = [wf.graph]`): nothing keeps the engine from pushing a node again
PushPerEdge ==
    \A n \in Nodes :
        Count(popped, n) + Count(stack, n)
            = (IF n = 1 THEN 1 ELSE 0) + PushesBy(Dispatched, n)

\* C22: the engine pushes a node once per incoming edge of a dispatched
\* parent, and for a parsed workflow that makes every node pushed at most
\* once and popped at most once, and spawn called once per dispatched pop of
\* a Flow node, so at most once per flow (never for a Start or End node).
SingleVisit ==
    graph # <<>> =>
        /\ PushPerEdge
        /\ \A n \in Nodes : Count(popped, n) + Count(stack, n) <= 1
        /\ \A n \in Nodes :
              /\ Len(threads[n]) =
                    IF IsFlowNode(n)
                    THEN Count(SubSeq(popped, 1, Dispatched), n) ELSE 0
              /\ Len(threads[n]) <= 1

\* main has returned after popping every node of a graph of four nodes or
\* more once and spawning a flow
SingleVisitWitness ==
    /\ pc = "returned"
    /\ Len(graph) >= 4
    /\ \A n \in Nodes : Count(popped, n) = 1
    /\ \E n \in FlowNodes : Len(threads[n]) = 1

\* no spawned flow is still to set done
NoneInFlight == \A n \in FlowNodes : ~InFlight(n)

\* main has returned 0 with an empty stack, every node reachable from Start
\* processed and every flow node's flow spawned
Terminated ==
    /\ pc = "returned" /\ exitCode = 0 /\ stack = <<>>
    /\ Reachable \subseteq Processed
    /\ \A n \in FlowNodes : Spawned(n)

\* C23: in every fairly scheduled run in which every spawned flow
\* eventually sets done (at most one flow is spawned and not done at a time,
\* so: in which again and again no spawned flow is left not done), once a
\* workflow is parsed main eventually returns 0 with an empty stack, having
\* processed every node reachable from Start and spawned every flow.
Termination ==
    ([]<>NoneInFlight) => (Parsed ~> Terminated)

\* main has returned 0 from a workflow of two flows or more, each spawned
\* once and finished, no thread having died
TerminationWitness ==
    /\ Terminated
    /\ NoFlowFailed
    /\ Cardinality(FlowNodes) >= 2
    /\ \A n \in FlowNodes : threads[n] = <<"finished">>

====
